---------------------------- MODULE Spec2Model ----------------------------
(***************************************************************************)
(* A model of voevent.py: the string -> typed value coercion               *)
(* (convert_value), the generic XML flattener (parse_element, xml2python)  *)
(* and the VOEvent document parser (VOEvent.parse and its section          *)
(* extractors).                                                            *)
(*                                                                         *)
(* Python strings are sequences of one-character strings, so that          *)
(* splitting, stripping and parsing are computed as the code computes      *)
(* them.  Python values are records of one shape, tagged by their type.    *)
(***************************************************************************)
EXTENDS Integers, Sequences, FiniteSets, TLC

VARIABLES
    cv_in,      \* convert_value: the call's arguments [value, conversion, datatype]
    cv_out,     \* convert_value: the call's outcome, or Pending before the call
    xml,        \* the XML tree handed to the flattener: its elements, by node
    xml0,       \* that tree as the XML parser built it
    calls,      \* the flatten calls made so far: arguments and outcome, in order
    doc,        \* the VOEvent XML document a VOEvent object was built on
    ev,         \* the fields of the VOEvent object
    pc,         \* the position of VOEvent.parse()
    err,        \* the exception that ended VOEvent.parse(), "none" if none did
    trace       \* the steps of VOEvent.parse() that ran, in order

vars == <<cv_in, cv_out, xml, xml0, calls, doc, ev, pc, err, trace>>

(***************************************************************************)
(* Characters and strings                                                  *)
(***************************************************************************)

DigitChars == <<"0", "1", "2", "3", "4", "5", "6", "7", "8", "9">>

UpperChars == <<"A", "B", "C", "D", "E", "F", "G", "H", "I", "J", "K", "L", "M",
                "N", "O", "P", "Q", "R", "S", "T", "U", "V", "W", "X", "Y", "Z">>

LowerChars == <<"a", "b", "c", "d", "e", "f", "g", "h", "i", "j", "k", "l", "m",
                "n", "o", "p", "q", "r", "s", "t", "u", "v", "w", "x", "y", "z">>

Whitespace == {" ", "\t", "\n", "\r"}

IsDigit(c) == \E i \in 1..10 : DigitChars[i] = c

LowerChar(c) ==
    IF \E i \in 1..26 : UpperChars[i] = c
    THEN LowerChars[CHOOSE i \in 1..26 : UpperChars[i] = c]
    ELSE c

\* str.lower()
Lower(s) == [i \in 1..Len(s) |-> LowerChar(s[i])]

Drop(s, n) == SubSeq(s, n + 1, Len(s))

Take(s, n) == SubSeq(s, 1, n)

\* The index of the first character of s that lies in the set cs, 0 if none does.
FirstIn(s, cs) ==
    IF \E i \in 1..Len(s) : s[i] \in cs
    THEN CHOOSE i \in 1..Len(s) : s[i] \in cs /\ \A j \in 1..(i - 1) : s[j] \notin cs
    ELSE 0

Count(s, c) == Cardinality({i \in 1..Len(s) : s[i] = c})

\* str.lstrip(), str.rstrip(), str.strip()
LStrip(s) ==
    IF \A i \in 1..Len(s) : s[i] \in Whitespace THEN <<>>
    ELSE Drop(s, (CHOOSE i \in 1..Len(s) :
                    s[i] \notin Whitespace /\ \A j \in 1..(i - 1) : s[j] \in Whitespace) - 1)

RStrip(s) ==
    IF \A i \in 1..Len(s) : s[i] \in Whitespace THEN <<>>
    ELSE Take(s, CHOOSE i \in 1..Len(s) :
                    s[i] \notin Whitespace /\ \A j \in (i + 1)..Len(s) : s[j] \in Whitespace)

Strip(s) == RStrip(LStrip(s))

\* str.split(sep, maxsplit=k) for a one-character separator
RECURSIVE Split(_, _, _)
Split(s, sep, k) ==
    LET i == FirstIn(s, {sep}) IN
    IF k = 0 \/ i = 0 THEN <<s>>
    ELSE <<Take(s, i - 1)>> \o Split(Drop(s, i), sep, k - 1)

\* str.split(maxsplit=1): on runs of whitespace, leading whitespace dropped
WsSplit1(s) ==
    LET t == LStrip(s)
        i == FirstIn(t, Whitespace)
    IN  IF t = <<>> THEN <<>>
        ELSE IF i = 0 THEN <<t>>
        ELSE IF LStrip(Drop(t, i)) = <<>> THEN <<Take(t, i - 1)>>
        ELSE <<Take(t, i - 1), LStrip(Drop(t, i))>>

(***************************************************************************)
(* Python values                                                           *)
(***************************************************************************)

VNone == [t |-> "None", s |-> <<>>, n |-> 0, e |-> 0, dt |-> <<>>]

VStr(s) == [t |-> "Str", s |-> s, n |-> 0, e |-> 0, dt |-> <<>>]

VInt(n) == [t |-> "Int", s |-> <<>>, n |-> n, e |-> 0, dt |-> <<>>]

VBool(b) == [t |-> "Bool", s |-> <<>>, n |-> IF b THEN 1 ELSE 0, e |-> 0, dt |-> <<>>]

\* The float m * 10^e, m not a multiple of 10 (0 is m = 0, e = 0).
RECURSIVE VFloat(_, _)
VFloat(m, e) ==
    IF m = 0 THEN [t |-> "Float", s |-> <<>>, n |-> 0, e |-> 0, dt |-> <<>>]
    ELSE IF m % 10 = 0 THEN VFloat(m \div 10, e + 1)
    ELSE [t |-> "Float", s |-> <<>>, n |-> m, e |-> e, dt |-> <<>>]

\* float('inf'), float('-inf'), float('nan')
VFloatSpecial(name) == [t |-> "Float", s |-> name, n |-> 0, e |-> 0, dt |-> <<>>]

\* A datetime: dt = <<year, month, day, hour, minute, second>> plus the
\* timedelta of frac seconds added to it (frac a Float value).
VTime(dt, frac) == [t |-> "Timestamp", s |-> <<>>, n |-> frac.n, e |-> frac.e, dt |-> dt]

IsStr(v) == v.t = "Str"

\* bool(v) for the values of the model
Truthy(v) ==
    CASE v.t = "None" -> FALSE
      [] v.t = "Str" -> v.s # <<>>
      [] v.t = "Int" -> v.n # 0
      [] v.t = "Bool" -> v.n = 1
      [] v.t = "Float" -> v.n # 0 \/ v.s # <<>>
      [] OTHER -> TRUE

\* F applied to x: names the value x in F's body.
With(x, F(_)) == F(x)

\* The outcome of a call: a returned value, or the exception raised.
Ok(v) == [exc |-> "none", val |-> v]

Raise(x) == [exc |-> x, val |-> VNone]


(***************************************************************************)
(* int(), float() and datetime.strptime() on strings                       *)
(***************************************************************************)

\* A run of digits, single underscores allowed between digits (PEP 515).
DigitPart(s) ==
    /\ s # <<>>
    /\ \A i \in 1..Len(s) : IsDigit(s[i]) \/ s[i] = "_"
    /\ IsDigit(s[1]) /\ IsDigit(s[Len(s)])
    /\ \A i \in 1..(Len(s) - 1) : ~(s[i] = "_" /\ s[i + 1] = "_")

Digits(s) == SelectSeq(s, IsDigit)

RECURSIVE DigitsValue(_)
DigitsValue(s) ==
    IF s = <<>> THEN 0
    ELSE 10 * DigitsValue(Take(s, Len(s) - 1)) + (CHOOSE i \in 1..10 : DigitChars[i] = s[Len(s)]) - 1

Unsigned(s) == IF s # <<>> /\ s[1] \in {"+", "-"} THEN Drop(s, 1) ELSE s

SignOf(s) == IF s # <<>> /\ s[1] = "-" THEN -1 ELSE 1

\* int(s): [ok |-> FALSE] stands for ValueError
IntParse(s) ==
    LET t == Strip(s) IN
    IF DigitPart(Unsigned(t))
    THEN [ok |-> TRUE, val |-> VInt(SignOf(t) * DigitsValue(Digits(Unsigned(t))))]
    ELSE [ok |-> FALSE, val |-> VNone]

\* float(s): [ok |-> FALSE] stands for ValueError
FloatParse(s) ==
    LET t    == Strip(s)
        body == Unsigned(t)
        ei   == FirstIn(body, {"e", "E"})
        mant == IF ei = 0 THEN body ELSE Take(body, ei - 1)
        expo == IF ei = 0 THEN <<>> ELSE Drop(body, ei)
        di   == FirstIn(mant, {"."})
        ip   == IF di = 0 THEN mant ELSE Take(mant, di - 1)
        fp   == IF di = 0 THEN <<>> ELSE Drop(mant, di)
        ev10 == IF ei = 0 THEN 0 ELSE SignOf(expo) * DigitsValue(Digits(Unsigned(expo)))
    IN  IF Lower(body) \in {<<"i", "n", "f">>, <<"i", "n", "f", "i", "n", "i", "t", "y">>,
                           <<"n", "a", "n">>}
        THEN [ok |-> TRUE,
              val |-> VFloatSpecial(IF Lower(body) = <<"n", "a", "n">> THEN <<"nan">>
                                    ELSE IF SignOf(t) = -1 THEN <<"-inf">> ELSE <<"inf">>)]
        ELSE IF /\ (ip # <<>> \/ fp # <<>>)
                /\ (ip = <<>> \/ DigitPart(ip))
                /\ (fp = <<>> \/ DigitPart(fp))
                /\ (ei = 0 \/ DigitPart(Unsigned(expo)))
        THEN [ok |-> TRUE,
              val |-> VFloat(SignOf(t) * DigitsValue(Digits(ip) \o Digits(fp)),
                             ev10 - Len(Digits(fp)))]
        ELSE [ok |-> FALSE, val |-> VNone]

\* The alternatives of the regular expressions _strptime builds for the
\* directives %m, %d, %H, %M and %S.
MonthField(f) ==
    \/ Len(f) = 2 /\ f[1] = "1" /\ f[2] \in {"0", "1", "2"}
    \/ Len(f) = 2 /\ f[1] = "0" /\ IsDigit(f[2]) /\ f[2] # "0"
    \/ Len(f) = 1 /\ IsDigit(f[1]) /\ f[1] # "0"

DayField(f) ==
    \/ Len(f) = 2 /\ f[1] = "3" /\ f[2] \in {"0", "1"}
    \/ Len(f) = 2 /\ f[1] \in {"1", "2"} /\ IsDigit(f[2])
    \/ Len(f) = 2 /\ f[1] \in {"0", " "} /\ IsDigit(f[2]) /\ f[2] # "0"
    \/ Len(f) = 1 /\ IsDigit(f[1]) /\ f[1] # "0"

HourField(f) ==
    \/ Len(f) = 2 /\ f[1] = "2" /\ f[2] \in {"0", "1", "2", "3"}
    \/ Len(f) = 2 /\ f[1] \in {"0", "1"} /\ IsDigit(f[2])
    \/ Len(f) = 1 /\ IsDigit(f[1])

MinuteField(f) ==
    \/ Len(f) = 2 /\ f[1] \in {"0", "1", "2", "3", "4", "5"} /\ IsDigit(f[2])
    \/ Len(f) = 1 /\ IsDigit(f[1])

SecondField(f) ==
    \/ Len(f) = 2 /\ f[1] = "6" /\ f[2] \in {"0", "1"}
    \/ MinuteField(f)

DaysInMonth(y, m) ==
    IF m = 2 THEN (IF y % 4 = 0 /\ (y % 100 # 0 \/ y % 400 = 0) THEN 29 ELSE 28)
    ELSE IF m \in {4, 6, 9, 11} THEN 30 ELSE 31

\* datetime.strptime(s, '%Y-%m-%dT%H:%M:%S'): the format's regular expression
\* (matched ignoring case) must consume the whole string, and the fields must
\* be a date and time datetime() accepts.  [ok |-> FALSE] stands for ValueError.
StrpTime(s) ==
    LET r1 == Drop(s, 5)
        i  == FirstIn(r1, {"-"})
        r2 == Drop(r1, i)
        j  == FirstIn(r2, {"T", "t"})
        r3 == Drop(r2, j)
        k  == FirstIn(r3, {":"})
        r4 == Drop(r3, k)
        l  == FirstIn(r4, {":"})
        fY == Take(s, 4)
        fm == Take(r1, i - 1)
        fd == Take(r2, j - 1)
        fH == Take(r3, k - 1)
        fM == Take(r4, l - 1)
        fS == Drop(r4, l)
        dt == <<DigitsValue(fY), DigitsValue(fm), DigitsValue(Digits(fd)),
                DigitsValue(fH), DigitsValue(fM), DigitsValue(fS)>>
    IN  IF /\ Len(s) >= 5 /\ (\A p \in 1..4 : IsDigit(s[p])) /\ s[5] = "-"
           /\ i > 0 /\ j > 0 /\ k > 0 /\ l > 0
           /\ MonthField(fm) /\ DayField(fd) /\ HourField(fH)
           /\ MinuteField(fM) /\ SecondField(fS)
           /\ dt[1] >= 1 /\ dt[3] <= DaysInMonth(dt[1], dt[2]) /\ dt[6] <= 59
        THEN [ok |-> TRUE, dt |-> dt]
        ELSE [ok |-> FALSE, dt |-> <<>>]

(***************************************************************************)
(* convert_value                                                           *)
(***************************************************************************)

TrueWords == {<<"t", "r", "u", "e">>, <<"y", "e", "s">>}

FalseWords == {<<"f", "a", "l", "s", "e">>, <<"n", "o">>}

\* Lines 202-219: the timestamp stage on the string s.  The fraction is cut off
\* at the first '.', but the whitespace split is made on the whole string.
TimestampStage(s) ==
    With(Split(s, ".", 1), LAMBDA dot :
    With(WsSplit1(s), LAMBDA ws :
    With(IF Len(dot) = 2 THEN <<"0", ".">> \o dot[2] ELSE <<>>, LAMBDA fracsec :
    With(IF Len(ws) = 2 THEN ws[1] \o <<"T">> \o ws[2]
         ELSE IF Len(dot) = 2 THEN dot[1] ELSE s, LAMBDA date :
    With(StrpTime(date), LAMBDA tm :
    With(FloatParse(fracsec), LAMBDA fr :
        IF ~tm.ok THEN VStr(s)
        ELSE IF fracsec = <<>> THEN VTime(tm.dt, VFloat(0, 0))
        ELSE IF fr.ok THEN VTime(tm.dt, fr.val)
        ELSE VStr(s)))))))

\* Lines 196-219: int(), else float(), else the timestamp stage
NumberStage(s, int, float) ==
    IF int.ok THEN Ok(int.val)
    ELSE IF float.ok THEN Ok(float.val)
    ELSE Ok(TimestampStage(s))

\* Lines 189-219: the chain of conversions of 'force' and 'always'.
ForceStage(value) ==
    IF value.t = "None" THEN Ok(value)
    ELSE IF ~IsStr(value) THEN Raise("AttributeError")
    ELSE With(Lower(value.s), LAMBDA low :
            IF low \in TrueWords THEN Ok(VBool(TRUE))
            ELSE IF low \in FalseWords THEN Ok(VBool(FALSE))
            ELSE NumberStage(value.s, IntParse(value.s), FloatParse(value.s)))

DT(name) == VStr(name)

DTint == DT(<<"i", "n", "t">>)

DTfloat == DT(<<"f", "l", "o", "a", "t">>)

DTstring == DT(<<"s", "t", "r", "i", "n", "g">>)

DTbool == DT(<<"b", "o", "o", "l">>)

DTboolean == DT(<<"b", "o", "o", "l", "e", "a", "n">>)

\* Lines 221-233: the declared type of 'always' and 'given'.  tmpval is the
\* argument, value what the first block left.  Every call that passes a
\* datatype passes a string or None as the value.
DeclaredStage(tmpval, value, datatype) ==
    IF ~Truthy(tmpval) THEN Ok(value)
    ELSE IF datatype = DTint
        THEN With(IntParse(tmpval.s), LAMBDA int :
                IF int.ok THEN Ok(int.val) ELSE Raise("ValueError"))
    ELSE IF datatype = DTfloat
        THEN With(FloatParse(tmpval.s), LAMBDA float :
                IF float.ok THEN Ok(float.val) ELSE Raise("ValueError"))
    ELSE IF datatype = DTstring THEN Ok(tmpval)
    ELSE IF datatype \in {DTbool, DTboolean}
        THEN (IF ~IsStr(value) THEN Raise("AttributeError")
              ELSE IF Lower(value.s) \in TrueWords THEN Ok(VBool(TRUE))
              ELSE IF Lower(value.s) \in FalseWords THEN Ok(VBool(FALSE))
              ELSE Ok(value))
    ELSE Ok(value)

\* convert_value(value, conversion, datatype)
convert_value(value, conversion, datatype) ==
    With(IF conversion \in {"force", "always"} THEN ForceStage(value) ELSE Ok(value),
         LAMBDA first :
            IF first.exc # "none" THEN first
            ELSE IF conversion \in {"always", "given"}
            THEN DeclaredStage(value, first.val, datatype)
            ELSE first)


(***************************************************************************)
(* The calls of convert_value that are explored                            *)
(***************************************************************************)

\* The longest string built from CoerceAlphabet.
MaxLen == 3

CoerceAlphabet == {"0", "1", "-", ".", "e", "_", " ", "n", "o", "N"}

ShortRaws == UNION {[1..k -> CoerceAlphabet] : k \in 0..MaxLen}

LongRaws == {
    <<"t", "r", "u", "e">>,
    <<"T", "r", "u", "e">>,
    <<"Y", "E", "S">>,
    <<"n", "o">>,
    <<"F", "a", "l", "s", "e">>,
    <<"0", "0", "7">>,
    <<"4", "2">>,
    <<"-", "5">>,
    <<" ", "7", " ">>,
    <<"1", "_", "0", "0", "0">>,
    <<"1", ".", "5">>,
    <<"1", ".", "2", "3">>,
    <<"1", "e", "2">>,
    <<"i", "n", "f">>,
    <<"x">>,
    <<"n", "o", "t", "-", "a", "-", "d", "a", "t", "e">>,
    <<"2", "0", "2", "0", "-", "0", "1", "-", "0", "2", " ", "0", "3", ":", "0", "4", ":", "0", "5", ".", "5">>,
    <<"2", "0", "2", "0", "-", "0", "1", "-", "0", "2", "T", "0", "3", ":", "0", "4", ":", "0", "5", ".", "5">>,
    <<"2", "0", "2", "0", "-", "0", "1", "-", "0", "2", " ", "0", "3", ":", "0", "4", ":", "0", "5">>,
    <<"2", "0", "2", "0", "-", "0", "1", "-", "0", "2", "T", "0", "3", ":", "0", "4", ":", "0", "5">>,
    <<"2", "0", "2", "0", "-", "0", "1", "-", "0", "2", "t", "0", "3", ":", "0", "4", ":", "0", "5">>,
    <<"2", "0", "2", "0", "-", "0", "1", "-", "0", "2", "\t", "0", "3", ":", "0", "4", ":", "0", "5", ".", "2", "5">>,
    <<"2", "0", "2", "0", "-", "0", "2", "-", "3", "0", "T", "0", "0", ":", "0", "0", ":", "0", "0">>,
    <<"2", "0", "2", "0", "-", "0", "2", "-", "2", "9", " ", "0", "0", ":", "0", "0", ":", "0", "0">>,
    <<"2", "0", "1", "9", "-", "0", "2", "-", "2", "9", " ", "0", "0", ":", "0", "0", ":", "0", "0">>,
    <<"2", "0", "2", "0", "-", "0", "1", "-", "0", "2", "T", "0", "3", ":", "0", "4", ":", "6", "0">>,
    <<"2", "0", "2", "0", "-", "0", "1", "-", "0", "2", "T", "0", "3", ":", "0", "4", ":", "0", "5", ".">>,
    <<"2", "0", "2", "0", "-", "0", "1", "-", "0", "2", "T", "0", "3", ":", "0", "4", ":", "0", "5", ".", "x">>,
    <<"2", "0", "2", "0", "-", "1", "-", "2", "T", "3", ":", "4", ":", "5">>,
    <<"2", "0", "2", "0", "-", "0", "1", "-", "0", "2">>,
    <<"2", "0", "2", "0", "-", "0", "1", "-", "0", "2", " ", "0", "3", ":", "0", "4", ":", "0", "5", ".", "5", " ">>,
    <<"0", "0", "0", "0", "-", "0", "1", "-", "0", "2", "T", "0", "3", ":", "0", "4", ":", "0", "5">> }

Raws == ShortRaws \cup LongRaws

Modes == {"force", "always", "given", "none"}

DataTypes == {VNone, DTint, DTfloat, DTstring, DTbool, DTboolean, DT(<<"x">>)}

Pending == [exc |-> "pending", val |-> VNone]


(***************************************************************************)
(* parse_element and xml2python                                            *)
(*                                                                         *)
(* An element is [tag, text, attrib]: attrib is the element's attribute    *)
(* dictionary, a sequence of <<key, value>> pairs in insertion order.      *)
(* The tree has the nodes 1..NumNodes, node 1 the root and the children    *)
(* of node n the nodes 2n and 2n+1.                                        *)
(***************************************************************************)

\* The number of elements of the tree.
NumNodes == 3

Nodes == 1..NumNodes

HasKey(attrib, key) == \E i \in 1..Len(attrib) : attrib[i][1] = key

\* dict.get(key): None when the key is missing
Get(attrib, key) ==
    IF HasKey(attrib, key)
    THEN attrib[CHOOSE i \in 1..Len(attrib) : attrib[i][1] = key][2]
    ELSE VNone

\* Lines 43-46: the loop over attribs.items() from item i on.  Each value but
\* that of 'value' is replaced, in the element's own dictionary, by its
\* conversion; an exception leaves the items before it replaced.
RECURSIVE ConvertAttribs(_, _, _)
ConvertAttribs(attrib, i, conversion) ==
    IF i > Len(attrib) THEN [exc |-> "none", attrib |-> attrib]
    ELSE IF attrib[i][1] = "value" THEN ConvertAttribs(attrib, i + 1, conversion)
    ELSE With(convert_value(attrib[i][2], conversion, VNone), LAMBDA r :
            IF r.exc # "none" THEN [exc |-> r.exc, attrib |-> attrib]
            ELSE ConvertAttribs([attrib EXCEPT ![i] = <<attrib[i][1], r.val>>],
                                i + 1, conversion))

\* The dictionary a returned node holds under 'attributes': the attribute
\* dictionary of element n itself (line 23, line 49), not a copy.
AttributesOf(n) == [ref |-> n]

NoEntry == [tag |-> <<>>, name |-> VNone, text |-> VNone,
            attributes |-> [ref |-> 0], value |-> VNone]

\* parse_element(element n of the tree x, conversion, stripws):
\* the tree it leaves, and the node returned or the exception raised.
parse_element(x, n, conversion, stripws) ==
    With(x[n].attrib, LAMBDA attribs :
    With(IF Truthy(x[n].text)
         THEN (IF stripws THEN VStr(Strip(x[n].text.s)) ELSE x[n].text)
         ELSE VNone, LAMBDA text :
    With(IF Truthy(Get(attribs, "value"))
         THEN convert_value(Get(attribs, "value"), conversion, Get(attribs, "dataType"))
         ELSE IF Truthy(text)
         THEN convert_value(text, conversion, Get(attribs, "dataType"))
         ELSE Ok(VNone), LAMBDA value :
    With(IF Truthy(Get(attribs, "name")) THEN Get(attribs, "name") ELSE VStr(x[n].tag),
         LAMBDA name :
    With(ConvertAttribs(attribs, 1, conversion), LAMBDA loop :
        IF value.exc # "none" THEN [exc |-> value.exc, x |-> x, entry |-> NoEntry]
        ELSE IF loop.exc # "none"
        THEN [exc |-> loop.exc, x |-> [x EXCEPT ![n].attrib = loop.attrib],
              entry |-> NoEntry]
        ELSE [exc |-> "none", x |-> [x EXCEPT ![n].attrib = loop.attrib],
              entry |-> [tag |-> x[n].tag, name |-> name, text |-> text,
                         attributes |-> AttributesOf(n), value |-> value.val]])))))

\* The order in which xml2python(element n) calls parse_element on the
\* elements below n: each child, then what is below it (lines 157, 174-175).
RECURSIVE Below(_)
Below(n) ==
    (IF 2 * n <= NumNodes THEN <<2 * n>> \o Below(2 * n) ELSE <<>>)
    \o (IF 2 * n + 1 <= NumNodes THEN <<2 * n + 1>> \o Below(2 * n + 1) ELSE <<>>)

\* parse_element on the elements order[i..], one after the other, until one
\* raises: the tree left, and the nodes returned, by element.
RECURSIVE ParseAll(_, _, _, _, _, _)
ParseAll(x, order, i, conversion, stripws, data) ==
    IF i > Len(order) THEN [exc |-> "none", x |-> x, data |-> data]
    ELSE With(parse_element(x, order[i], conversion, stripws), LAMBDA r :
            IF r.exc # "none" THEN [exc |-> r.exc, x |-> r.x, data |-> data]
            ELSE ParseAll(r.x, order, i + 1, conversion, stripws,
                          [data EXCEPT ![order[i]] = r.entry]))

NoData == [n \in Nodes |-> NoEntry]

\* xml2python(element n, conversion, stripws, parse_root): the nodes of the
\* returned structure by element (their nesting is that of the elements).
xml2python(x, n, conversion, stripws, parse_root) ==
    ParseAll(x, Below(n) \o (IF parse_root THEN <<n>> ELSE <<>>), 1,
             conversion, stripws, NoData)


(***************************************************************************)
(* The VOEvent object                                                      *)
(*                                                                         *)
(* A field of the object is a sequence: <<>> is None, the empty            *)
(* dictionary, the empty tuple or an attribute not created yet; a          *)
(* dictionary is its <<key, value>> pairs in insertion order; an attribute *)
(* created by parse() holds its value wrapped, <<value>>.                  *)
(***************************************************************************)

\* VOEvent.__init__ (lines 250-265); the attributes parse() creates are
\* not there yet.
InitEvent ==
    [ Who |-> <<>>, What |-> <<>>, WhereWhen |-> <<>>, How |-> <<>>, Why |-> <<>>,
      Citations |-> <<>>, Description |-> <<>>, Reference |-> <<>>,
      who |-> <<>>, what |-> <<>>, wherewhen |-> <<>>, how |-> <<>>, why |-> <<>>,
      position2d |-> <<>>,
      options |-> <<>>, version |-> <<>>, role |-> <<>>, ivorn |-> <<>>,
      eventid |-> <<>>, coordsystem |-> <<>>, coordtime |-> <<>>,
      citations |-> <<>>, description |-> <<>> ]

\* d[key] = value on a dictionary
DictSet(d, key, value) ==
    IF \E i \in 1..Len(d) : d[i][1] = key
    THEN [i \in 1..Len(d) |-> IF d[i][1] = key THEN <<key, value>> ELSE d[i]]
    ELSE Append(d, <<key, value>>)

\* The outcome of a step of parse(): the exception raised ("none" if none
\* was) and the object as the step leaves it.
Done(e) == [exc |-> "none", ev |-> e]

Fail(x, e) == [exc |-> x, ev |-> e]

(***************************************************************************)
(* VOEvent.parse: the checks of the root element                           *)
(*                                                                         *)
(* The root tag is [pre, ver, post], standing for pre \o ver \o "}" \o     *)
(* post; pre is the text up to and including the "v" of the namespace.     *)
(***************************************************************************)

VOEventNamespace == "{http://www.ivoa.net/xml/VOEvent/v"

VOEventName == <<"V", "O", "E", "v", "e", "n", "t">>

\* \d(\.\d(\.\d)?)? up to the closing brace
VersionDigits(ver) ==
    /\ Len(ver) \in {1, 3, 5}
    /\ \A i \in 1..Len(ver) : IF i % 2 = 1 THEN IsDigit(ver[i]) ELSE ver[i] = "."

\* Lines 272-274: regex.search(root.tag)
RootTagMatches(tag) ==
    /\ tag.pre = VOEventNamespace
    /\ VersionDigits(tag.ver)
    /\ Len(tag.post) >= Len(VOEventName)
    /\ Take(tag.post, Len(VOEventName)) = VOEventName

\* Lines 268-274
check_root(d, e) ==
    LET e1 == [e EXCEPT !.options = <<"force">>] IN
    IF RootTagMatches(d.tag) THEN Done(e1) ELSE Fail("AssertionError", e1)

\* Lines 276-282
check_version(d, e) ==
    IF d.attrib.version.t = "None" THEN Fail("KeyError", e)
    ELSE With(Split(d.attrib.version.s, ".", Len(d.attrib.version.s)), LAMBDA parts :
         With([i \in 1..Len(parts) |-> IntParse(parts[i])], LAMBDA nums :
            IF \E i \in 1..Len(nums) : ~nums[i].ok THEN Fail("ValueError", e)
            ELSE IF nums[1].val.n # 2 THEN Fail("AssertionError", e)
            ELSE Done([e EXCEPT !.version =
                          <<nums[1].val.n,
                            IF Len(nums) = 1 THEN 0 ELSE nums[2].val.n>>])))

Roles == { <<"o", "b", "s", "e", "r", "v", "a", "t", "i", "o", "n">>,
           <<"p", "r", "e", "d", "i", "c", "t", "i", "o", "n">>,
           <<"u", "t", "i", "l", "i", "t", "y">>,
           <<"t", "e", "s", "t">> }

\* Lines 283-285: the role is stored, then checked
check_role(d, e) ==
    LET r  == d.attrib.role
        e1 == [e EXCEPT !.role = <<r.s>>]
    IN  IF r.t = "None" THEN Fail("KeyError", e)
        ELSE IF r.s \notin Roles THEN Fail("AssertionError", e1)
        ELSE Done(e1)

\* Line 287: self.ivorn.split('/', maxsplit=4)
IvornKeys3(s) == Split(s, "/", 3)

IvornKeys(s) == Split(s, "/", 4)

\* Lines 286-292
check_ivorn(d, e) ==
    IF d.attrib.ivorn.t = "None" THEN Fail("KeyError", e)
    ELSE With([e EXCEPT !.ivorn = <<d.attrib.ivorn.s>>], LAMBDA e1 :
         With(IvornKeys(d.attrib.ivorn.s), LAMBDA keys :
            IF Len(keys) < 4 THEN Fail("IndexError", e1)
            ELSE With(Split(keys[4], "#", 1), LAMBDA rl :
                    IF Len(rl) # 2 THEN Fail("ValueError", e1)
                    ELSE Done([e1 EXCEPT !.eventid = <<keys[3], rl[1], rl[2]>>]))))

(***************************************************************************)
(* The section extractors                                                  *)
(*                                                                         *)
(* doc.sections[tag] holds the elements with that tag directly under the   *)
(* root, in document order (root.findall(tag); root.find(tag) is the       *)
(* first of them).  An optional child element is a sequence of length 0    *)
(* or 1.  An element the object refers to is named by its path.            *)
(***************************************************************************)

AuthorKeys1 == <<"title", "shortName", "logoURL", "contactName", "contactEmail",
                 "contactPhone", "contributor">>

AuthorKeys2 == <<"title", "short", "logo", "name", "email", "phone", "contributor">>

\* Lines 315-324
RECURSIVE AuthorLoop(_, _, _)
AuthorLoop(grandchildren, i, author) ==
    IF i > Len(grandchildren) THEN author
    ELSE LET g == grandchildren[i] IN
         IF \E k \in 1..Len(AuthorKeys1) : AuthorKeys1[k] = g.tag
         THEN AuthorLoop(grandchildren, i + 1,
                         DictSet(author,
                                 AuthorKeys2[CHOOSE k \in 1..Len(AuthorKeys1) :
                                                AuthorKeys1[k] = g.tag],
                                 g.text))
         ELSE AuthorLoop(grandchildren, i + 1, author)

\* Lines 305-325: the loop over the children of Who, filling self.who
RECURSIVE WhoLoop(_, _, _)
WhoLoop(children, i, who) ==
    IF i > Len(children) THEN [exc |-> "none", who |-> who]
    ELSE LET c == children[i] IN
         CASE c.tag = "Description" ->
                WhoLoop(children, i + 1, DictSet(who, "description", c.text))
           [] c.tag = "AuthorIVORN" ->
                WhoLoop(children, i + 1, DictSet(who, "ivorn", c.text))
           [] c.tag = "Date" ->
                With(convert_value(c.text, "force", VNone), LAMBDA r :
                    IF r.exc # "none" THEN [exc |-> r.exc, who |-> who]
                    ELSE WhoLoop(children, i + 1, DictSet(who, "date", r.val)))
           [] c.tag = "Reference" ->
                WhoLoop(children, i + 1, DictSet(who, "reference", c.text))
           [] c.tag = "Author" ->
                WhoLoop(children, i + 1,
                        DictSet(who, "author", AuthorLoop(c.children, 1, <<>>)))
           [] OTHER -> WhoLoop(children, i + 1, who)

\* Lines 299-327
parse_who(d, e) ==
    IF Len(d.sections.Who) > 1 THEN Fail("AssertionError", e)
    ELSE IF d.sections.Who = <<>> THEN Done([e EXCEPT !.who = <<>>])
    ELSE With(WhoLoop(d.sections.Who[1].children, 1, <<>>), LAMBDA r :
         With([e EXCEPT !.Who = <<"Who", 1>>, !.who = r.who], LAMBDA e2 :
            IF r.exc # "none" THEN Fail(r.exc, e2) ELSE Done(e2)))

\* Lines 329-347: parse_what_group, from element i of the group on
RECURSIVE parse_what_group(_, _, _, _)
parse_what_group(group, i, what, conversion) ==
    IF i > Len(group) THEN [exc |-> "none", what |-> what]
    ELSE With(group[i], LAMBDA el :
        IF el.tag \notin {"Param", "Group"}
        THEN parse_what_group(group, i + 1, what, conversion)
        ELSE IF ~HasKey(el.attrib, "name") THEN [exc |-> "KeyError", what |-> <<>>]
        ELSE IF el.tag = "Param"
        THEN With(convert_value(Get(el.attrib, "value"), conversion,
                                Get(el.attrib, "dataType")), LAMBDA value :
                IF value.exc # "none" THEN [exc |-> value.exc, what |-> <<>>]
                ELSE parse_what_group(group, i + 1,
                        DictSet(what, Get(el.attrib, "name"),
                                <<"Param", value.val, Get(el.attrib, "unit"),
                                  Get(el.attrib, "ucd")>>),
                        conversion))
        ELSE With(parse_what_group(el.children, 1, <<>>, conversion), LAMBDA sub :
                IF sub.exc # "none" THEN [exc |-> sub.exc, what |-> <<>>]
                ELSE parse_what_group(group, i + 1,
                        DictSet(what, Get(el.attrib, "name"), <<"Group", sub.what>>),
                        conversion)))

\* Lines 349-356
parse_what(d, e) ==
    IF Len(d.sections.What) > 1 THEN Fail("AssertionError", e)
    ELSE IF d.sections.What = <<>> THEN Done(e)
    ELSE With(parse_what_group(d.sections.What[1].children, 1, <<>>, e.options[1]),
              LAMBDA r :
                IF r.exc # "none" THEN Fail(r.exc, [e EXCEPT !.What = <<"What", 1>>])
                ELSE Done([e EXCEPT !.What = <<"What", 1>>, !.what = r.what]))

\* float(element.text)
FloatOfText(text) ==
    IF text.t = "None" THEN Raise("TypeError")
    ELSE With(FloatParse(text.s), LAMBDA f :
            IF f.ok THEN Ok(f.val) ELSE Raise("ValueError"))

CoordSystems == {
    <<"T", "T", "-", "I", "C", "R", "S", "-", "T", "O", "P", "O">>,
    <<"U", "T", "C", "-", "I", "C", "R", "S", "-", "T", "O", "P", "O">>,
    <<"T", "T", "-", "F", "K", "5", "-", "T", "O", "P", "O">>,
    <<"U", "T", "C", "-", "F", "K", "5", "-", "T", "O", "P", "O">>,
    <<"G", "P", "S", "-", "I", "C", "R", "S", "-", "T", "O", "P", "O">>,
    <<"G", "P", "S", "-", "F", "K", "5", "-", "T", "O", "P", "O">>,
    <<"T", "T", "-", "I", "C", "R", "S", "-", "G", "E", "O">>,
    <<"U", "T", "C", "-", "I", "C", "R", "S", "-", "G", "E", "O">>,
    <<"T", "T", "-", "F", "K", "5", "-", "G", "E", "O">>,
    <<"U", "T", "C", "-", "F", "K", "5", "-", "G", "E", "O">>,
    <<"G", "P", "S", "-", "I", "C", "R", "S", "-", "G", "E", "O">>,
    <<"T", "D", "B", "-", "I", "C", "R", "S", "-", "B", "A", "R", "Y">>,
    <<"T", "D", "B", "-", "F", "K", "5", "-", "B", "A", "R", "Y">>,
    <<"U", "T", "C", "-", "G", "E", "O", "D", "-", "T", "O", "P", "O">> }

\* Lines 358-370: parse_coord_system(el), el the ObservationLocation
parse_coord_system(el, e) ==
    With([e EXCEPT !.coordsystem = <<VNone>>], LAMBDA e1 :
        IF el.system = <<>> THEN [exc |-> "none", ev |-> e1, system |-> VNone]
        ELSE IF ~HasKey(el.system[1], "id")
        THEN [exc |-> "KeyError", ev |-> e1, system |-> VNone]
        ELSE IF Get(el.system[1], "id").s \notin CoordSystems
        THEN [exc |-> "ValueError", ev |-> e1, system |-> VNone]
        ELSE [exc |-> "none", ev |-> e1, system |-> Get(el.system[1], "id")])

\* Lines 388-394: Error2Radius, then C1 and C2 when both are there
position_values(pos, e, error) ==
    IF error.exc # "none" THEN Fail(error.exc, e)
    ELSE IF pos.c1 = <<>> \/ pos.c2 = <<>>
    THEN Done([e EXCEPT !.wherewhen = DictSet(e.wherewhen, "position2d", e.position2d)])
    ELSE With(FloatOfText(pos.c1[1]), LAMBDA ra :
         With(FloatOfText(pos.c2[1]), LAMBDA dec :
            IF ra.exc # "none" THEN Fail(ra.exc, e)
            ELSE IF dec.exc # "none" THEN Fail(dec.exc, e)
            ELSE Done([e EXCEPT
                    !.position2d = <<ra.val, dec.val, error.val>>,
                    !.wherewhen = DictSet(e.wherewhen, "position2d",
                                          <<ra.val, dec.val, error.val>>)])))

\* Lines 379-394: the position, in the ObservationLocation obsloc
parse_position(obsloc, e) ==
    IF obsloc.pos = <<>> THEN Done(e)
    ELSE With(obsloc.pos[1], LAMBDA pos :
        IF ~(/\ pos.name1 # <<>> /\ pos.name2 # <<>>
             /\ pos.name1[1] = VStr(<<"R", "A">>)
             /\ pos.name2[1] = VStr(<<"D", "e", "c">>))
        THEN Done(e)
        ELSE position_values(pos, e,
                IF pos.err = <<>> THEN Ok(VNone) ELSE FloatOfText(pos.err[1])))

\* Lines 403-405: the report at the end of parse_wherewhen reads
\* self.coordsystem and self.coordtime, which only lines 359, 395 and 400 create.
wherewhen_report(e) ==
    IF e.coordsystem = <<>> \/ e.coordtime = <<>> THEN Fail("AttributeError", e)
    ELSE Done(e)

\* Lines 397-405: the observation time, then the report
parse_time(obsloc, e) ==
    With(IF obsloc.isotime = <<>> THEN Ok(VNone)
         ELSE convert_value(obsloc.isotime[1], "force", VNone), LAMBDA time :
        IF time.exc # "none" THEN Fail(time.exc, e)
        ELSE wherewhen_report([e EXCEPT !.coordtime = <<time.val>>,
                                        !.wherewhen = DictSet(e.wherewhen, "time",
                                                              time.val)]))

\* Lines 395-405: the coordinate system, then the time
parse_system(obsloc, e) ==
    With(parse_coord_system(obsloc, e), LAMBDA sys :
        IF sys.exc # "none" THEN Fail(sys.exc, sys.ev)
        ELSE parse_time(obsloc,
                [sys.ev EXCEPT !.coordsystem = <<sys.system>>,
                               !.wherewhen = DictSet(sys.ev.wherewhen, "system",
                                                     sys.system)]))

\* Lines 372-405
parse_wherewhen(d, e) ==
    IF Len(d.sections.WhereWhen) > 1 THEN Fail("AssertionError", e)
    ELSE IF d.sections.WhereWhen = <<>> THEN wherewhen_report([e EXCEPT !.wherewhen = <<>>])
    ELSE With([e EXCEPT !.wherewhen = <<>>, !.WhereWhen = <<"WhereWhen", 1>>], LAMBDA e2 :
        IF d.sections.WhereWhen[1].obsloc = <<>> THEN Fail("AttributeError", e2)
        ELSE With(d.sections.WhereWhen[1].obsloc[1], LAMBDA obsloc :
             With(parse_position(obsloc, e2), LAMBDA p :
                IF p.exc # "none" THEN p ELSE parse_system(obsloc, p.ev))))

\* Lines 407-421
parse_how(d, e) ==
    LET How == d.sections.How
        e1  == [e EXCEPT !.how = <<>>]
    IN  IF Len(How) > 1 THEN Fail("AssertionError", e)
        ELSE IF How = <<>> THEN Done(e1)
        ELSE Done([e1 EXCEPT !.How = <<"How", 1>>])

\* Lines 436-450: the Inference child of Why
parse_inference(inf) ==
    With(convert_value(Get(inf.attrib, "probability"), "force", VNone), LAMBDA prob :
    With(convert_value(Get(inf.attrib, "relation"), "force", VNone), LAMBDA rel :
        IF prob.exc # "none" THEN [exc |-> prob.exc, inference |-> <<>>]
        ELSE IF rel.exc # "none" THEN [exc |-> rel.exc, inference |-> <<>>]
        ELSE IF inf.concept # <<>> /\ inf.concept[1].t = "None"
        THEN [exc |-> "AttributeError", inference |-> <<>>]
        ELSE [exc |-> "none",
              inference |-> << <<"probability", prob.val>>, <<"relation", rel.val>>,
                               <<"name", IF inf.name = <<>> THEN VNone ELSE inf.name[1]>>,
                               <<"concept",
                                 IF inf.concept = <<>> THEN <<>>
                                 ELSE <<Split(inf.concept[1].s, ";",
                                              Len(inf.concept[1].s))>> >> >>]))

\* Lines 431-450: the entries of self.why, in the order they are set
why_entries(el, e, imp, ex) ==
    With([e EXCEPT !.why = << <<"importance", imp.val>>, <<"expires", ex.val>>,
                              <<"description",
                                IF el.description = <<>> THEN VStr(<<>>)
                                ELSE el.description[1]>> >>], LAMBDA e3 :
        IF el.inference = <<>> THEN Done(e3)
        ELSE With(parse_inference(el.inference[1]), LAMBDA inf :
                IF inf.exc # "none" THEN Fail(inf.exc, e3)
                ELSE Done([e3 EXCEPT !.why = Append(e3.why,
                                                    <<"inference", inf.inference>>)])))

\* Lines 423-453
parse_why(d, e) ==
    IF Len(d.sections.Why) > 1 THEN Fail("AssertionError", e)
    ELSE IF d.sections.Why = <<>> THEN Done([e EXCEPT !.why = <<>>])
    ELSE With(d.sections.Why[1], LAMBDA el :
         With([e EXCEPT !.why = <<>>, !.Why = <<"Why", 1>>], LAMBDA e2 :
         With(convert_value(Get(el.attrib, "importance"), "force", VNone), LAMBDA imp :
         With(convert_value(Get(el.attrib, "expires"), "force", VNone), LAMBDA ex :
            IF imp.exc # "none" THEN Fail(imp.exc, e2)
            ELSE IF ex.exc # "none" THEN Fail(ex.exc, e2)
            ELSE why_entries(el, e2, imp, ex)))))

CiteTypes == {<<"f", "o", "l", "l", "o", "w", "u", "p">>,
              <<"s", "u", "p", "e", "r", "s", "e", "d", "e", "s">>,
              <<"r", "e", "t", "r", "a", "c", "t", "i", "o", "n">>}

\* Lines 460-473: the loop over the children of Citations, appending to
\* self.citations
RECURSIVE CitationsLoop(_, _, _)
CitationsLoop(children, i, citations) ==
    IF i > Len(children) THEN [exc |-> "none", citations |-> citations]
    ELSE LET cit  == children[i]
             cite == Get(cit.attrib, "cite")
         IN  IF cit.tag = "EventIVORN"
             THEN (IF cite.t = "None" THEN [exc |-> "ValueError", citations |-> citations]
                   ELSE IF cite.s \notin CiteTypes
                   THEN [exc |-> "ValueError", citations |-> citations]
                   ELSE CitationsLoop(children, i + 1,
                                      Append(citations, <<cite, cit.text>>)))
             ELSE IF cit.tag = "Description"
             THEN CitationsLoop(children, i + 1,
                      Append(citations,
                             <<VStr(<<"d", "e", "s", "c", "r", "i", "p", "t", "i", "o", "n">>),
                               cit.text>>))
             ELSE [exc |-> "ValueError", citations |-> citations]

\* bool(element) of root.find(tag): there is such an element and it has children
FoundWithChildren(elements) == elements # <<>> /\ elements[1].children # <<>>

\* Lines 455-474: only the first Citations element is looked at
parse_citations(d, e) ==
    IF ~FoundWithChildren(d.sections.Citations)
    THEN Done([e EXCEPT !.Citations = <<>>, !.citations = << <<>> >>])
    ELSE With(CitationsLoop(d.sections.Citations[1].children, 1, <<>>), LAMBDA r :
         With([e EXCEPT !.Citations = <<"Citations", 1>>, !.citations = <<r.citations>>],
              LAMBDA e1 :
                IF r.exc # "none" THEN Fail(r.exc, e1) ELSE Done(e1)))

\* Lines 476-482: only the first Description element is looked at
parse_description(d, e) ==
    Done([e EXCEPT !.Description = IF FoundWithChildren(d.sections.Description)
                                   THEN <<"Description", 1, 1>> ELSE <<>>,
                   !.description = << <<>> >>])

\* Lines 484-488: only the first Reference element is looked at
parse_reference(d, e) ==
    IF FoundWithChildren(d.sections.Reference)
    THEN Done([e EXCEPT !.Reference = <<"Reference", 1, 1>>])
    ELSE Done(e)

(***************************************************************************)
(* VOEvent.parse, step by step                                             *)
(***************************************************************************)

Steps == <<"root", "version", "role", "ivorn", "who", "what", "wherewhen", "how",
           "why", "citations", "description", "reference">>

StepIndex(step) == CHOOSE i \in 1..Len(Steps) : Steps[i] = step

\* The role checked before the version.
SuccessorRoleFirst(step) ==
    CASE step = "root" -> "role"
      [] step = "role" -> "version"
      [] step = "version" -> "ivorn"
      [] step = "reference" -> "done"
      [] OTHER -> Steps[StepIndex(step) + 1]

Successor(step) ==
    IF StepIndex(step) = Len(Steps) THEN "done" ELSE Steps[StepIndex(step) + 1]

\* parse() going on with the next step after an exception.
NextPcNoAbort(step, exc) == Successor(step)

\* An exception leaves parse() at once (no step of lines 267-297 catches any).
NextPc(step, exc) == IF exc = "none" THEN Successor(step) ELSE "failed"

NoError == [exc |-> "none", step |-> "none"]

\* One step of parse(): it runs when parse() has come to it, and leaves the
\* object as the step's code does, ending parse() if that raises.
Step(step, outcome) ==
    /\ pc = step
    /\ ev' = outcome.ev
    /\ err' = IF outcome.exc = "none" THEN err ELSE [exc |-> outcome.exc, step |-> step]
    /\ pc' = NextPc(step, outcome.exc)
    /\ trace' = Append(trace, step)
    /\ UNCHANGED <<cv_in, cv_out, xml, xml0, calls, doc>>

CheckRoot == Step("root", check_root(doc, ev))

CheckVersion == Step("version", check_version(doc, ev))

CheckRole == Step("role", check_role(doc, ev))

CheckIvorn == Step("ivorn", check_ivorn(doc, ev))

ParseWho == Step("who", parse_who(doc, ev))

ParseWhat == Step("what", parse_what(doc, ev))

ParseWhereWhen == Step("wherewhen", parse_wherewhen(doc, ev))

ParseHow == Step("how", parse_how(doc, ev))

ParseWhy == Step("why", parse_why(doc, ev))

ParseCitations == Step("citations", parse_citations(doc, ev))

ParseDescription == Step("description", parse_description(doc, ev))

ParseReference == Step("reference", parse_reference(doc, ev))


(***************************************************************************)
(* The documents that are explored                                         *)
(***************************************************************************)

TagOK == [pre |-> VOEventNamespace, ver |-> <<"2", ".", "0">>, post |-> VOEventName]

RootTags ==
    { TagOK,
      [TagOK EXCEPT !.ver = <<"1", ".", "1">>],
      [TagOK EXCEPT !.ver = <<"2", "0">>],
      [TagOK EXCEPT !.pre = "{http://example.org/v"],
      [TagOK EXCEPT !.post = VOEventName \o <<"s">>],
      [TagOK EXCEPT !.post = <<"V", "O", "E">>] }

VersionOK == VStr(<<"2", ".", "0">>)

Versions == { VersionOK, VStr(<<"2">>), VStr(<<"2", ".", "1", ".", "3">>), VStr(<<"3", ".", "0">>), VStr(<<"2", ".", "x">>), VStr(<<>>), VNone }

RoleOK == VStr(<<"o", "b", "s", "e", "r", "v", "a", "t", "i", "o", "n">>)

RoleValues == { RoleOK, VStr(<<"t", "e", "s", "t">>), VStr(<<"b", "o", "g", "u", "s">>), VStr(<<"T", "e", "s", "t">>), VNone }

IvornOK == VStr(<<"i", "v", "o", ":", "/", "/", "e", "x", "a", "m", "p", "l", "e", ".", "o", "r", "g", "/", "t", "e", "s", "t", "#", "1">>)

LongIvorns == { IvornOK, VStr(<<"i", "v", "o", ":", "/", "/", "a", "/", "b", "#", "c", "#", "d">>), VStr(<<"i", "v", "o", ":", "/", "/", "a", "/", "b", "#", "c", "/", "d">>), VStr(<<"i", "v", "o", ":", "/", "/", "a", "/", "b">>), VStr(<<"i", "v", "o", ":", "/", "/", "a">>), VNone }

\* The longest ivorn built from IvornAlphabet.
MaxIvornLen == 5

IvornAlphabet == {"/", "#", "a"}

ShortIvorns == {VStr(s) : s \in UNION {[1..k -> IvornAlphabet] : k \in 0..MaxIvornLen}}

Leaf(tag, text) == [tag |-> tag, text |-> text, children |-> <<>>]

WhoEl ==
    [children |-> <<
        Leaf("AuthorIVORN", VStr(<<"i", "v", "o", ":", "/", "/", "a", "/", "b">>)),
        Leaf("Date", VStr(<<"2", "0", "2", "0", "-", "0", "1", "-", "0", "2", "T", "0", "3", ":", "0", "4", ":", "0", "5">>)),
        [tag |-> "Author", text |-> VNone,
         children |-> << Leaf("shortName", VStr(<<"x">>)),
                         Leaf("contactName", VNone),
                         Leaf("other", VStr(<<"y">>)) >>],
        Leaf("Other", VNone) >>]

Item(tag, attrib, children) == [tag |-> tag, attrib |-> attrib, children |-> children]

ParamFlux ==
    Item("Param", << <<"name", VStr(<<"f", "l", "u", "x">>)>>, <<"dataType", DTfloat>>,
                     <<"value", VStr(<<"1", ".", "2", "3">>)>>, <<"unit", VStr(<<"J", "y">>)>> >>, <<>>)

WhatEl ==
    [children |-> << Item("Group", << <<"name", VStr(<<"g">>)>> >>, <<ParamFlux>>),
                     Item("Description", <<>>, <<>>),
                     Item("Param", << <<"name", VStr(<<"n">>)>> >>, <<>>) >>]

WhatNoParamName ==
    [children |-> << Item("Group", << <<"name", VStr(<<"g">>)>> >>, <<ParamFlux, Item("Param", << <<"value", VStr(<<"7">>)>> >>, <<>>)>>) >>]

WhatNoGroupName == [children |-> << ParamFlux, Item("Group", <<>>, <<ParamFlux>>) >>]

PosRaDec ==
    [name1 |-> <<VStr(<<"R", "A">>)>>, name2 |-> <<VStr(<<"D", "e", "c">>)>>,
     c1 |-> <<VStr(<<"1", "0", ".", "5">>)>>, c2 |-> <<VStr(<<"-", "3">>)>>, err |-> <<VStr(<<"0", ".", "1">>)>>]

ObsLoc(pos, system, isotime) == [pos |-> pos, system |-> system, isotime |-> isotime]

SystemOK == << <<"id", VStr(<<"U", "T", "C", "-", "I", "C", "R", "S", "-", "T", "O", "P", "O">>)>> >>

WWEl(obsloc) == [obsloc |-> <<obsloc>>]

WhereWhenEl == WWEl(ObsLoc(<<PosRaDec>>, <<SystemOK>>, <<VStr(<<"2", "0", "2", "0", "-", "0", "1", "-", "0", "2", "T", "0", "3", ":", "0", "4", ":", "0", "5", ".", "5">>)>>))

WhereWhenPlain == WWEl(ObsLoc(<<>>, <<>>, <<>>))

WhereWhenBadSystem ==
    WWEl(ObsLoc(<<PosRaDec>>, << << <<"id", VStr(<<"b", "o", "g", "u", "s">>)>> >> >>, <<>>))

WhereWhenNoSystemId ==
    WWEl(ObsLoc(<<PosRaDec>>, << << <<"other", VStr(<<"x">>)>> >> >>, <<>>))

WhereWhenGalactic ==
    WWEl(ObsLoc(<<[PosRaDec EXCEPT !.name1 = <<VStr(<<"L">>)>>, !.name2 = <<VStr(<<"B">>)>>]>>,
                <<SystemOK>>, <<>>))

WhereWhenBadDec ==
    WWEl(ObsLoc(<<[PosRaDec EXCEPT !.c2 = <<VStr(<<"x">>)>>]>>, <<SystemOK>>, <<>>))

WhereWhenNoObsLoc == [obsloc |-> <<>>]

HowEl == [children |-> <<"Description">>]

InferenceEl ==
    [attrib |-> << <<"probability", VStr(<<"0", ".", "9">>)>> >>,
     name |-> <<VStr(<<"G", "R", "B">>)>>, concept |-> <<VStr(<<"a", ";", "b">>)>>]

WhyEl ==
    [attrib |-> << <<"importance", VStr(<<"1">>)>> >>, description |-> <<>>,
     inference |-> <<InferenceEl>>]

WhyNoConceptText == [WhyEl EXCEPT !.inference = <<[InferenceEl EXCEPT !.concept = <<VNone>>]>>]

Cit(tag, attrib, text) == [tag |-> tag, attrib |-> attrib, text |-> text]

CitFollowup == Cit("EventIVORN", << <<"cite", VStr(<<"f", "o", "l", "l", "o", "w", "u", "p">>)>> >>, VStr(<<"i", "v", "o", ":", "/", "/", "a", "/", "b", "#", "1">>))

CitDescription == Cit("Description", <<>>, VStr(<<"d">>))

CitationsEl == [children |-> <<CitFollowup, CitDescription,
                  Cit("EventIVORN", << <<"cite", VStr(<<"r", "e", "t", "r", "a", "c", "t", "i", "o", "n">>)>> >>, VStr(<<"i", "v", "o", ":", "/", "/", "a", "/", "b", "#", "2">>))>>]

CitationsBadCite ==
    [children |-> <<CitFollowup, Cit("EventIVORN", << <<"cite", VStr(<<"b", "o", "g", "u", "s">>)>> >>, VNone)>>]

CitationsNoCite == [children |-> <<CitFollowup, Cit("EventIVORN", <<>>, VNone)>>]

CitationsBadElement == [children |-> <<CitDescription, Cit("Other", <<>>, VNone)>>]

CitationsEmpty == [children |-> <<>>]

DescriptionEl == [children |-> <<"b">>]

ReferenceEl == [children |-> <<"a">>]

NoChildren == [children |-> <<>>]

\* Per section: the element sequences with no defect (the section absent, or
\* one well-formed element), and those with one.
Basic ==
    [ Who         |-> {<<>>, <<WhoEl>>},
      What        |-> {<<>>, <<WhatEl>>},
      WhereWhen   |-> {<<>>, <<WhereWhenEl>>},
      How         |-> {<<>>, <<HowEl>>},
      Why         |-> {<<>>, <<WhyEl>>},
      Citations   |-> {<<>>, <<CitationsEl>>},
      Description |-> {<<>>, <<DescriptionEl>>},
      Reference   |-> {<<>>, <<ReferenceEl>>} ]

Defective ==
    [ Who         |-> {<<WhoEl, WhoEl>>},
      What        |-> {<<WhatNoParamName>>, <<WhatNoGroupName>>, <<WhatEl, WhatEl>>},
      WhereWhen   |-> {<<WhereWhenPlain>>, <<WhereWhenBadSystem>>, <<WhereWhenNoSystemId>>,
                       <<WhereWhenGalactic>>, <<WhereWhenBadDec>>, <<WhereWhenNoObsLoc>>,
                       <<WhereWhenEl, WhereWhenEl>>},
      How         |-> {<<HowEl, HowEl>>},
      Why         |-> {<<WhyNoConceptText>>, <<WhyEl, WhyEl>>},
      Citations   |-> {<<CitationsBadCite>>, <<CitationsNoCite>>, <<CitationsBadElement>>,
                       <<CitationsEl, CitationsBadCite>>, <<CitationsEmpty, CitationsEl>>},
      Description |-> {<<NoChildren>>, <<DescriptionEl, DescriptionEl>>},
      Reference   |-> {<<NoChildren>>, <<ReferenceEl, ReferenceEl>>} ]

SectionTags == DOMAIN Basic

\* The most sections of a document that have a defect.
MaxDefects == 1

All(t) == Basic[t] \cup Defective[t]

SectionSets ==
    {s \in [Who : All("Who"), What : All("What"), WhereWhen : All("WhereWhen"),
            How : All("How"), Why : All("Why"), Citations : All("Citations"),
            Description : All("Description"), Reference : All("Reference")] :
        Cardinality({t \in SectionTags : s[t] \notin Basic[t]}) <= MaxDefects}

TypicalSections == [t \in SectionTags |-> IF t = "WhereWhen" THEN <<WhereWhenEl>> ELSE <<>>]

Document(tag, version, role, ivorn, sections) ==
    [tag |-> tag, attrib |-> [version |-> version, role |-> role, ivorn |-> ivorn],
     sections |-> sections]

Documents ==
    {Document(t, v, r, i, TypicalSections) :
        t \in RootTags, v \in Versions, r \in RoleValues, i \in LongIvorns}
    \cup {Document(TagOK, VersionOK, RoleOK, i, TypicalSections) : i \in ShortIvorns}
    \cup {Document(TagOK, VersionOK, RoleOK, IvornOK, s) : s \in SectionSets}


(***************************************************************************)
(* The XML trees handed to the flattener                                   *)
(***************************************************************************)

Element(text, attrib) == [tag |-> <<"P", "a", "r", "a", "m">>, text |-> text, attrib |-> attrib]

Elements ==
    { Element(VNone, <<>>),
      Element(VStr(<<" ", " ", "h", "i", " ">>), << <<"name", VStr(<<"p">>)>>, <<"value", VStr(<<"7">>)>>,
                                  <<"dataType", DTint>>, <<"ucd", VStr(<<"5">>)>> >>),
      Element(VStr(<<"x">>), << <<"name", VStr(<<"q">>)>>, <<"unit", VStr(<<"J", "y">>)>>,
                              <<"dataType", DTstring>> >>),
      Element(VNone, << <<"name", VStr(<<"0">>)>>, <<"value", VStr(<<"x">>)>>, <<"dataType", DTint>> >>),
      Element(VStr(<<" ">>), << <<"expires", VStr(<<"2", "0", "2", "0", "-", "0", "1", "-", "0", "2", "T", "0", "3", ":", "0", "4", ":", "0", "5">>)>>,
                              <<"importance", VStr(<<"t", "r", "u", "e">>)>> >>) }

\* The most calls of the flattener on one tree.
MaxCalls == 2

(***************************************************************************)
(* The specifications                                                      *)
(***************************************************************************)

IdleCoerce ==
    /\ cv_in = [value |-> VNone, conversion |-> "none", datatype |-> VNone]
    /\ cv_out = Pending

IdleFlatten == xml = <<>> /\ xml0 = <<>> /\ calls = <<>>

IdleParse ==
    /\ doc = Document(TagOK, VNone, VNone, VNone, TypicalSections) /\ ev = InitEvent /\ pc = "idle" /\ err = NoError /\ trace = <<>>

\* A VOEvent object built on a document; parse() has not run yet.
Init ==
    /\ doc \in Documents
    /\ ev = InitEvent
    /\ pc = "root"
    /\ err = NoError
    /\ trace = <<>>
    /\ IdleCoerce /\ IdleFlatten

Next ==
    \/ CheckRoot \/ CheckVersion \/ CheckRole \/ CheckIvorn
    \/ ParseWho \/ ParseWhat \/ ParseWhereWhen \/ ParseHow
    \/ ParseWhy \/ ParseCitations \/ ParseDescription \/ ParseReference

Spec == Init /\ [][Next]_vars

\* One call of convert_value.
InitCoerce ==
    /\ cv_in \in [value : {VNone} \cup {VStr(r) : r \in Raws},
                  conversion : Modes, datatype : DataTypes]
    /\ cv_out = Pending
    /\ IdleFlatten /\ IdleParse

CallConvertValue ==
    /\ cv_out = Pending
    /\ cv_out' = convert_value(cv_in.value, cv_in.conversion, cv_in.datatype)
    /\ UNCHANGED <<cv_in, xml, xml0, calls, doc, ev, pc, err, trace>>

NextCoerce == CallConvertValue

SpecCoerce == InitCoerce /\ [][NextCoerce]_vars

\* The flattener called on a tree the XML parser built.
InitFlatten ==
    /\ xml \in [Nodes -> Elements]
    /\ xml0 = xml
    /\ calls = <<>>
    /\ IdleCoerce /\ IdleParse

\* xml2python(root, conversion, stripws, parse_root)
CallXml2Python(conversion, stripws, parse_root) ==
    /\ Len(calls) < MaxCalls
    /\ \E r \in {xml2python(xml, 1, conversion, stripws, parse_root)} :
        /\ xml' = r.x
        /\ calls' = Append(calls, [fn |-> "xml2python", node |-> 1,
                                   conversion |-> conversion, stripws |-> stripws,
                                   parse_root |-> parse_root,
                                   exc |-> r.exc, data |-> r.data, after |-> r.x])
    /\ UNCHANGED <<xml0, cv_in, cv_out, doc, ev, pc, err, trace>>

\* parse_element(element n, conversion, stripws)
CallParseElement(n, conversion, stripws) ==
    /\ Len(calls) < MaxCalls
    /\ \E r \in {parse_element(xml, n, conversion, stripws)} :
        /\ xml' = r.x
        /\ calls' = Append(calls, [fn |-> "parse_element", node |-> n,
                                   conversion |-> conversion, stripws |-> stripws,
                                   parse_root |-> TRUE, exc |-> r.exc,
                                   data |-> [NoData EXCEPT ![n] = r.entry],
                                   after |-> r.x])
    /\ UNCHANGED <<xml0, cv_in, cv_out, doc, ev, pc, err, trace>>

NextFlatten ==
    \/ \E c \in Modes, w \in BOOLEAN, pr \in BOOLEAN : CallXml2Python(c, w, pr)
    \/ \E n \in Nodes, c \in Modes, w \in BOOLEAN : CallParseElement(n, c, w)

SpecFlatten == InitFlatten /\ [][NextFlatten]_vars


(***************************************************************************)
(* Properties of VOEvent.parse (specification Spec)                        *)
(***************************************************************************)

\* The step has run (to its end or to an exception).
Ran(step) == \E i \in 1..Len(trace) : trace[i] = step

HeaderSteps == {"root", "version", "role", "ivorn"}

\* The fields each step of parse() assigns.
Writes ==
    [ root        |-> {"options"},
      version     |-> {"version"},
      role        |-> {"role"},
      ivorn       |-> {"ivorn", "eventid"},
      who         |-> {"Who", "who"},
      what        |-> {"What", "what"},
      wherewhen   |-> {"WhereWhen", "wherewhen", "position2d", "coordsystem", "coordtime"},
      how         |-> {"How", "how"},
      why         |-> {"Why", "why"},
      citations   |-> {"Citations", "citations"},
      description |-> {"Description", "description"},
      reference   |-> {"Reference"} ]

\* The fields of the object that hold the document.
DocumentFields == DOMAIN InitEvent \ {"options"}

\* The fields of __init__ that belong to a section.
SectionFields ==
    [ Who         |-> {"Who", "who"},
      What        |-> {"What", "what"},
      WhereWhen   |-> {"WhereWhen", "wherewhen"},
      How         |-> {"How", "how"},
      Why         |-> {"Why", "why"},
      Citations   |-> {"Citations"},
      Description |-> {"Description"},
      Reference   |-> {"Reference"} ]

WellFormedSections == \A t \in SectionTags : doc.sections[t] \in Basic[t]

\* C1: when root tag, version, role and ivorn are valid and every section is
\* either absent or one well-formed element, parse() raises nothing, and once
\* it has returned the fields of every absent section hold their defaults.
C1_AbsentSectionNeverFatal ==
    (err.step \notin HeaderSteps /\ WellFormedSections) =>
        /\ err.exc = "none"
        /\ pc = "done" =>
              \A t \in SectionTags : doc.sections[t] = <<>> =>
                  \A f \in SectionFields[t] : ev[f] = InitEvent[f]

\* C2 as stated: after parse() has failed, every document field holds the
\* value it had before parse() was called.
C2_NoFieldChangedOnFailure ==
    err.exc # "none" => \A f \in DocumentFields : ev[f] = InitEvent[f]

\* C2 amended: a failure ends parse() at the failing step, and every field
\* that only later steps assign holds the value it had before the call.
C2_FailureStopsBeforeLaterFields ==
    err.exc # "none" =>
        /\ pc = "failed"
        /\ trace[Len(trace)] = err.step
        /\ \A i \in (StepIndex(err.step) + 1)..Len(Steps) :
              \A f \in Writes[Steps[i]] : ev[f] = InitEvent[f]

\* parse() failed on the role with the version and the role already assigned.
C2_Witness ==
    /\ pc = "failed" /\ err.step = "role"
    /\ ev.version # <<>> /\ ev.role # <<>> /\ ev.ivorn = <<>>

\* C7: a document with more than one element of a section tag under the root
\* does not get through parse().
C7_DuplicateSectionFails ==
    pc = "done" => \A t \in SectionTags : Len(doc.sections[t]) <= 1

\* The '/'-delimited segments of the document's ivorn.
Segments == Split(doc.attrib.ivorn.s, "/", Len(doc.attrib.ivorn.s))

IvornAccepted == Ran("ivorn") /\ err.step # "ivorn"

\* The identity made of the 3rd segment and of the 4th cut at its first '#'.
IdentityOf(seg) ==
    <<seg[3], Take(seg[4], FirstIn(seg[4], {"#"}) - 1), Drop(seg[4], FirstIn(seg[4], {"#"}))>>

\* C8 as stated: the ivorn is accepted exactly when it has exactly 4 segments
\* and the 4th contains exactly one '#', and the identity is then made of the
\* 3rd segment and the two parts of the 4th.
C8_ExactlyFourSegmentsOneHash ==
    (Ran("ivorn") /\ IsStr(doc.attrib.ivorn)) =>
        /\ IvornAccepted <=> (Len(Segments) = 4 /\ Count(Segments[4], "#") = 1)
        /\ IvornAccepted => ev.eventid = IdentityOf(Segments)

\* C8 amended: the ivorn is accepted exactly when it has at least 4 segments
\* and the 4th contains at least one '#'; the identity is then the 3rd segment,
\* the part of the 4th before its first '#' and the part of the 4th after it.
\* A missing ivorn attribute fails.
C8_AtLeastFourSegmentsOneHash ==
    Ran("ivorn") =>
        IF IsStr(doc.attrib.ivorn)
        THEN /\ IvornAccepted <=> (Len(Segments) >= 4 /\ Count(Segments[4], "#") >= 1)
             /\ IvornAccepted => ev.eventid = IdentityOf(Segments)
        ELSE ~IvornAccepted

\* An accepted ivorn of more than 4 segments, or with several '#' in the 4th.
C8_Witness ==
    /\ IvornAccepted /\ IsStr(doc.attrib.ivorn)
    /\ (Len(Segments) > 4 \/ Count(Segments[4], "#") > 1)

\* The AstroCoordSystem elements of the document's ObservationLocation.
SystemOf(d) ==
    IF Len(d.sections.WhereWhen) = 1 /\ d.sections.WhereWhen[1].obsloc # <<>>
    THEN d.sections.WhereWhen[1].obsloc[1].system
    ELSE <<>>

\* C10: with an AstroCoordSystem element, an id outside the whitelist makes
\* parse() fail in the WhereWhen extractor, an id inside it is stored as the
\* coordinate system when the extractor has gone through, and an element
\* without id does not make the extractor fail.
C10_CoordSystemId ==
    (Ran("wherewhen") /\ SystemOf(doc) # <<>>) =>
        IF HasKey(SystemOf(doc)[1], "id")
        THEN IF Get(SystemOf(doc)[1], "id").s \in CoordSystems
             THEN err.step # "wherewhen" => ev.coordsystem = <<Get(SystemOf(doc)[1], "id")>>
             ELSE err.step = "wherewhen"
        ELSE err.step # "wherewhen"

\* The order of the checks and of the extractors in a run of parse().
ParseOrder ==
    <<"root", "version", "role", "ivorn",
      "who", "what", "wherewhen", "how", "why", "citations", "description", "reference">>

RoleNames ==
    { <<"o", "b", "s", "e", "r", "v", "a", "t", "i", "o", "n">>,
      <<"p", "r", "e", "d", "i", "c", "t", "i", "o", "n">>,
      <<"u", "t", "i", "l", "i", "t", "y">>,
      <<"t", "e", "s", "t">> }

\* The major version the document's version attribute names is 2.
MajorIsTwo ==
    /\ IsStr(doc.attrib.version)
    /\ IntParse(Split(doc.attrib.version.s, ".", Len(doc.attrib.version.s))[1]).ok
    /\ IntParse(Split(doc.attrib.version.s, ".", Len(doc.attrib.version.s))[1]).val.n = 2

VersionThreeRoleBogus ==
    /\ doc.attrib.version = VStr(<<"3", ".", "0">>)
    /\ doc.attrib.role = VStr(<<"b", "o", "g", "u", "s">>)

\* C11: the steps of parse() that have run are the first ones of the order
\* root tag, version, role, ivorn, Who, What, WhereWhen, How, Why, Citations,
\* Description, Reference, each once; a step runs only after the step before
\* it has passed (the version check passes only a major version of 2, the role
\* check only the four role names), so no extractor starts before the four
\* checks have passed; the step that fails is the last to run; and a document
\* with version "3.0" and role "bogus" fails on the version.
C11_ChecksThenExtractorsInOrder ==
    /\ Len(trace) <= Len(ParseOrder)
    /\ trace = Take(ParseOrder, Len(trace))
    /\ err.exc # "none" => pc = "failed" /\ trace[Len(trace)] = err.step
    /\ \A i \in 1..(Len(trace) - 1) : err.step # trace[i]
    /\ Ran("role") => MajorIsTwo
    /\ Ran("ivorn") => IsStr(doc.attrib.role) /\ doc.attrib.role.s \in RoleNames
    /\ Ran("who") =>
          /\ RootTagMatches(doc.tag) /\ MajorIsTwo
          /\ doc.attrib.role.s \in RoleNames /\ ev.eventid # <<>>
    /\ (VersionThreeRoleBogus /\ Ran("version")) =>
          /\ err.step = "version" /\ pc = "failed"
          /\ ~Ran("role") /\ ev.role = <<>>

\* parse() has failed on the version of a document with version "3.0" and
\* role "bogus", the role not having been looked at.
C11_Witness ==
    /\ VersionThreeRoleBogus
    /\ trace = <<"root", "version">>
    /\ pc = "failed" /\ err.step = "version"

(***************************************************************************)
(* Properties of convert_value (specification SpecCoerce)                  *)
(***************************************************************************)

Called == cv_out # Pending

\* Force, or Always with no declared type.
DefaultCoercion ==
    \/ cv_in.conversion = "force"
    \/ cv_in.conversion = "always" /\ cv_in.datatype = VNone

\* s with the separator of date and time replaced by 'T', without fraction.
IsoDate(s) == Take(s, 10) \o <<"T">> \o SubSeq(s, 12, 19)

\* s is YYYY-MM-DD, then 'T' or one whitespace character, then HH:MM:SS, then
\* nothing or '.' and digits, and names a date and a time that exist.
IsoForm(s) ==
    /\ Len(s) >= 19
    /\ \A p \in {1, 2, 3, 4, 6, 7, 9, 10, 12, 13, 15, 16, 18, 19} : IsDigit(s[p])
    /\ s[5] = "-" /\ s[8] = "-" /\ s[14] = ":" /\ s[17] = ":"
    /\ s[11] \in {"T"} \cup Whitespace
    /\ \/ Len(s) = 19
       \/ Len(s) >= 21 /\ s[20] = "." /\ \A p \in 21..Len(s) : IsDigit(s[p])
    /\ StrpTime(IsoDate(s)).ok

\* The date-time s names plus its fraction of a second.
IsoValue(s) ==
    VTime(StrpTime(IsoDate(s)).dt,
          IF Len(s) = 19 THEN VFloat(0, 0) ELSE FloatParse(<<"0">> \o Drop(s, 19)).val)

\* C5: under Force, or Always with no declared type, a string of the form
\* YYYY-MM-DD HH:MM:SS or YYYY-MM-DDTHH:MM:SS, with or without a fraction of a
\* second, is converted to the Timestamp of that date-time plus the fraction.
C5_TimestampFormsConvert ==
    (Called /\ DefaultCoercion /\ IsStr(cv_in.value) /\ IsoForm(cv_in.value.s)) =>
        cv_out = Ok(IsoValue(cv_in.value.s))

\* int() or float() of the declared type does not accept the value.
Unparseable(value, datatype) ==
    /\ IsStr(value)
    /\ \/ datatype = DTint /\ ~IntParse(value.s).ok
       \/ datatype = DTfloat /\ ~FloatParse(value.s).ok

\* The value a declared type finds: that of the first block under 'always',
\* the argument under 'given'.
PriorValue == IF cv_in.conversion = "always" THEN ForceStage(cv_in.value).val ELSE cv_in.value

\* C6: convert_value raises only under always/given with declared type int or
\* float and a value that does not parse; with declared type bool or boolean
\* under always/given the result is the boolean the value names, or the prior
\* value when it names none.
C6_OnlyDeclaredNumbersRaise ==
    Called =>
        /\ cv_out.exc # "none" =>
              /\ cv_in.conversion \in {"always", "given"}
              /\ Unparseable(cv_in.value, cv_in.datatype)
        /\ (cv_in.conversion \in {"always", "given"} /\ cv_in.datatype \in {DTbool, DTboolean}) =>
              cv_out = IF IsStr(cv_in.value) /\ Lower(cv_in.value.s) \in TrueWords
                       THEN Ok(VBool(TRUE))
                       ELSE IF IsStr(cv_in.value) /\ Lower(cv_in.value.s) \in FalseWords
                       THEN Ok(VBool(FALSE))
                       ELSE Ok(PriorValue)

\* The timestamp parse of the reference coercion: the fraction is cut off at
\* the first '.', the date portion is split once on whitespace and joined
\* with 'T'; the string is kept when a step fails.
RefTimestamp(s) ==
    With(Split(s, ".", 1), LAMBDA dot :
    With(WsSplit1(dot[1]), LAMBDA ws :
    With(StrpTime(IF Len(ws) = 2 THEN ws[1] \o <<"T">> \o ws[2] ELSE dot[1]), LAMBDA tm :
    With(FloatParse(IF Len(dot) = 2 THEN <<"0", ".">> \o dot[2] ELSE <<"0">>), LAMBDA fr :
        IF tm.ok /\ fr.ok THEN VTime(tm.dt, fr.val) ELSE VStr(s)))))

\* The reference coercion: Null for an absent or empty value, else the first
\* of boolean literal, integer, float and timestamp that succeeds, else the
\* string.
RefCoerce(value) ==
    IF value.t = "None" \/ value.s = <<>> THEN VNone
    ELSE IF Lower(value.s) \in TrueWords THEN VBool(TRUE)
    ELSE IF Lower(value.s) \in FalseWords THEN VBool(FALSE)
    ELSE IF IntParse(value.s).ok THEN IntParse(value.s).val
    ELSE IF FloatParse(value.s).ok THEN FloatParse(value.s).val
    ELSE RefTimestamp(value.s)

\* C9: under Force, or Always with no declared type, convert_value returns
\* what the reference coercion gives.
C9_EqualsReferenceCoercion ==
    (Called /\ DefaultCoercion) => cv_out = Ok(RefCoerce(cv_in.value))

(***************************************************************************)
(* Properties of xml2python and parse_element (specification SpecFlatten)  *)
(***************************************************************************)

SameCall(a, b) ==
    /\ a.fn = b.fn /\ a.node = b.node /\ a.conversion = b.conversion
    /\ a.stripws = b.stripws /\ a.parse_root = b.parse_root

\* The entries of the two results are equal, the contents of their attribute
\* mappings included.
SameOutput(a, b) ==
    /\ a.data = b.data
    /\ \A n \in Nodes : a.data[n].attributes = AttributesOf(n) =>
                            a.after[n].attrib = b.after[n].attrib

\* C3: two successive calls on the same element with the same parameters
\* both complete and return structurally equal results.
C3_FlattenTwiceSameResult ==
    \A i \in 1..(Len(calls) - 1) :
        SameCall(calls[i], calls[i + 1]) =>
            /\ calls[i].exc = "none" /\ calls[i + 1].exc = "none"
            /\ SameOutput(calls[i], calls[i + 1])

\* C4: whatever calls were made, every element of the tree has the tag, text
\* and attribute mapping it had at first, and no returned entry's attribute
\* mapping is the element's own.
C4_SourceTreeNotMutated ==
    /\ xml = xml0
    /\ \A i \in 1..Len(calls) : \A n \in Nodes :
          calls[i].data[n].attributes # AttributesOf(n)

=============================================================================
